---- MODULE Spec2Model ----
(***************************************************************************)
(* smtp-graph-bridge: the SMTP Session of main.go (AuthPlain, Mail, Rcpt,  *)
(* Data, Reset, Logout) and the Graph dispatch it performs (sendViaGraph). *)
(* One Session created by Backend.NewSession is modelled; the handlers are *)
(* callable in any order, as the exported methods of the Session are.      *)
(***************************************************************************)
EXTENDS Integers, Sequences, FiniteSets, TLC

VARIABLES
    config,        \* Backend.config: the fields the session reads
    freshLoopVar,  \* the build: TRUE when `for _, addr := range` makes a new addr per iteration
    from,          \* Session.from
    to,            \* Session.to
    call,          \* the most recent handler call and its arguments
    before,        \* Session.from / Session.to when that call started
    ret,           \* the error value that call returned
    dispatched,    \* the send-mail requests that call posted to the Graph client
    replies,       \* what Post returned for each of them
    authed,        \* history: some AuthPlain call on this session has returned nil
    declared,      \* history: the addresses given to Rcpt since Session.to was last nil
    cur,           \* which of the Backend's two sessions the variables above describe
    peer,          \* the Backend's other session: the same fields, as its last call left them
    boot           \* process startup: the configuration sources and what loadConfig made of them

vars ==
    <<config, freshLoopVar, from, to, call, before, ret, dispatched, replies, authed,
      declared, cur, peer, boot>>

----------------------------------------------------------------------------
(* Bounds of the model *)

MaxRcpt == 2    \* recipients accumulated on the session
MaxParts == 2   \* parts mail.Reader.NextPart yields for one payload
MaxRcptTwo == 1 \* recipients accumulated on each session when two sessions run

(* Inputs *)

Senders == {"a@x.com", "d@x.com"}
Addrs == {"b@x.com", "c@x.com"}
Usernames == {"relay", "guest"}
Passwords == {"s3cret", "wrong"}
Bodies == {"", "hello", "<p>hi</p>"}
AttachmentBodies == {"%PDF-1.4"}

(* Error values *)

Nil == "nil"
ErrInvalidCredentials == "invalid credentials"
ErrCreateReader == "mail.CreateReader error"
ErrPost == "SendMail.Post error"

Configs ==
    [RequireAuth : BOOLEAN, AuthUsername : {"relay"}, AuthPassword : {"s3cret"},
     EmailFrom : {"noreply@corp.example"}]

----------------------------------------------------------------------------
(* The payload handed to Data, as go-message presents it: whether           *)
(* mail.CreateReader succeeds, the Subject header field, the parts          *)
(* NextPart returns before it stops, and whether it stops with an error     *)
(* (partErr) or with io.EOF.                                                *)

InlineParts ==
    [header : {"InlineHeader"}, ctype : {"text/html", "text/plain"}, body : Bodies]

AttachmentParts ==
    [header : {"AttachmentHeader"}, ctype : {"text/html", "application/pdf"},
     body : AttachmentBodies]

Parts == InlineParts \cup AttachmentParts

PartSeqs == UNION {[1..n -> Parts] : n \in 0..MaxParts}

NoSubject == [present |-> FALSE, raw |-> ""]

Subjects ==
    {NoSubject, [present |-> TRUE, raw |-> "Hi"],
     [present |-> TRUE, raw |-> "=?x-unknown?Q?Hi?="]}

UndecodableSubjects == {"=?x-unknown?Q?Hi?="}

Unframed ==
    [framed |-> FALSE, subject |-> NoSubject, parts |-> <<>>, partErr |-> FALSE]

Payloads ==
    [framed : {TRUE}, subject : Subjects, parts : PartSeqs, partErr : BOOLEAN]
        \cup {Unframed}

----------------------------------------------------------------------------
(* Session.AuthPlain: the error it returns *)

AuthPlainResultUserOnly(username, password) ==
    IF ~config.RequireAuth
    THEN Nil
    ELSE IF username = config.AuthUsername THEN Nil ELSE ErrInvalidCredentials

AuthPlainResult(username, password) ==
    IF ~config.RequireAuth
    THEN Nil
    ELSE IF username = config.AuthUsername /\ password = config.AuthPassword
         THEN Nil
         ELSE ErrInvalidCredentials

AuthPlain(username, password) ==
    /\ ret' = AuthPlainResult(username, password)
    /\ authed' = (authed \/ AuthPlainResult(username, password) = Nil)
    /\ call' = [op |-> "AuthPlain", username |-> username, password |-> password]
    /\ before' = [from |-> from, to |-> to]
    /\ dispatched' = <<>>
    /\ replies' = <<>>
    /\ UNCHANGED <<boot, cur, peer, config, freshLoopVar, from, to, declared>>

(* Session.Mail: s.from = from *)

Mail(sender) ==
    /\ from' = sender
    /\ ret' = Nil
    /\ call' = [op |-> "Mail", from |-> sender]
    /\ before' = [from |-> from, to |-> to]
    /\ dispatched' = <<>>
    /\ replies' = <<>>
    /\ UNCHANGED <<boot, cur, peer, config, freshLoopVar, to, authed, declared>>

(* Session.Rcpt: s.to = append(s.to, to) *)

AppendRcptDedup(s, addr) ==
    IF \E i \in DOMAIN s : s[i] = addr THEN s ELSE Append(s, addr)

AppendRcpt(s, addr) == Append(s, addr)

RcptSharedEnvelope(addr) ==
    /\ to' = AppendRcpt(to, addr)
    /\ peer' = [peer EXCEPT !.to = AppendRcpt(peer.to, addr)]
    /\ declared' = Append(declared, addr)
    /\ ret' = Nil
    /\ call' = [op |-> "Rcpt", to |-> addr]
    /\ before' = [from |-> from, to |-> to]
    /\ dispatched' = <<>>
    /\ replies' = <<>>
    /\ UNCHANGED <<boot, cur, config, freshLoopVar, from, authed>>

Rcpt(addr) ==
    /\ to' = AppendRcpt(to, addr)
    /\ declared' = Append(declared, addr)
    /\ ret' = Nil
    /\ call' = [op |-> "Rcpt", to |-> addr]
    /\ before' = [from |-> from, to |-> to]
    /\ dispatched' = <<>>
    /\ replies' = <<>>
    /\ UNCHANGED <<boot, cur, peer, config, freshLoopVar, from, authed>>

(* Session.Reset: s.from = "", s.to = nil *)

ResetFrom(f) == ""

ResetToKeeps(t) == t

ResetTo(t) == <<>>

Reset ==
    /\ from' = ResetFrom(from)
    /\ to' = ResetTo(to)
    /\ declared' = <<>>
    /\ ret' = Nil
    /\ call' = [op |-> "Reset"]
    /\ before' = [from |-> from, to |-> to]
    /\ dispatched' = <<>>
    /\ replies' = <<>>
    /\ UNCHANGED <<boot, cur, peer, config, freshLoopVar, authed>>

(* Session.Logout: return nil *)

Logout ==
    /\ ret' = Nil
    /\ call' = [op |-> "Logout"]
    /\ before' = [from |-> from, to |-> to]
    /\ dispatched' = <<>>
    /\ replies' = <<>>
    /\ UNCHANGED <<boot, cur, peer, config, freshLoopVar, from, to, authed, declared>>

----------------------------------------------------------------------------
(* Session.Data: framing, subject, the part loop, body selection *)

CreateReaderNeverFails(r) == FALSE

CreateReaderFails(r) == ~r.framed

(* header.Subject() of go-message: the decoded text of the Subject field;   *)
(* ("", nil) when the message has no such field, an error when the field    *)
(* cannot be decoded.                                                       *)
HeaderSubject(h) ==
    IF ~h.present
    THEN [val |-> "", err |-> FALSE]
    ELSE IF h.raw \in UndecodableSubjects
         THEN [val |-> h.raw, err |-> TRUE]
         ELSE [val |-> h.raw, err |-> FALSE]

ParsedSubject(r) ==
    IF HeaderSubject(r.subject).err THEN "(No Subject)" ELSE HeaderSubject(r.subject).val

(* The part loop: the parts it handles before NextPart stops it, with       *)
(* io.EOF or with an error alike.                                           *)
PartsReadNoneOnError(r) == IF r.partErr THEN <<>> ELSE r.parts

PartsRead(r) == r.parts

ProcessPartSwapped(acc, p) ==
    IF p.header = "InlineHeader"
    THEN IF p.ctype = "text/html"
         THEN [acc EXCEPT !.bodyText = p.body]
         ELSE [acc EXCEPT !.bodyHTML = p.body]
    ELSE acc

ProcessPartReadsAttachments(acc, p) ==
    IF p.ctype = "text/html"
    THEN [acc EXCEPT !.bodyHTML = p.body]
    ELSE [acc EXCEPT !.bodyText = p.body]

ProcessPartConcat(acc, p) ==
    IF p.header = "InlineHeader"
    THEN IF p.ctype = "text/html"
         THEN [acc EXCEPT !.bodyHTML = acc.bodyHTML \o p.body]
         ELSE [acc EXCEPT !.bodyText = acc.bodyText \o p.body]
    ELSE acc

ProcessPart(acc, p) ==
    IF p.header = "InlineHeader"
    THEN IF p.ctype = "text/html"
         THEN [acc EXCEPT !.bodyHTML = p.body]
         ELSE [acc EXCEPT !.bodyText = p.body]
    ELSE acc

RECURSIVE ProcessPartsFrom(_, _)
ProcessPartsFrom(acc, parts) ==
    IF parts = <<>>
    THEN acc
    ELSE ProcessPartsFrom(ProcessPart(acc, Head(parts)), Tail(parts))

ProcessParts(parts) == ProcessPartsFrom([bodyText |-> "", bodyHTML |-> ""], parts)

SelectBodyPreferText(bodyText, bodyHTML) ==
    IF bodyText # ""
    THEN [finalBody |-> bodyText, contentType |-> "text"]
    ELSE [finalBody |-> bodyHTML, contentType |-> "html"]

SelectBody(bodyText, bodyHTML) ==
    IF bodyHTML # ""
    THEN [finalBody |-> bodyHTML, contentType |-> "html"]
    ELSE [finalBody |-> bodyText, contentType |-> "text"]

(* Session.sendViaGraph: the request handed to SendMail().Post *)

BuildRecipients(toAddresses) ==
    IF freshLoopVar
    THEN toAddresses
    ELSE [i \in 1..Len(toAddresses) |-> toAddresses[Len(toAddresses)]]

BodyType(contentType) ==
    IF contentType = "html" THEN "HTML_BODYTYPE" ELSE "TEXT_BODYTYPE"

SendRequestAsEnvelopeSender(toAddresses, subject, body, contentType) ==
    [userId |-> from,
     subject |-> subject,
     body |-> [contentType |-> BodyType(contentType), content |-> body],
     toRecipients |-> BuildRecipients(toAddresses),
     saveToSentItems |-> TRUE]

SendRequest(toAddresses, subject, body, contentType) ==
    [userId |-> config.EmailFrom,
     subject |-> subject,
     body |-> [contentType |-> BodyType(contentType), content |-> body],
     toRecipients |-> BuildRecipients(toAddresses),
     saveToSentItems |-> TRUE]

(* sendViaGraph posts the request once and returns what Post returned;     *)
(* Data returns what sendViaGraph returned.                                 *)

PostAttemptsRetry(req, postErr) == IF postErr THEN <<req, req>> ELSE <<req>>

PostAttempts(req, postErr) == <<req>>

PostReply(postErr) == IF postErr THEN ErrPost ELSE Nil

DataReturnSwallows(err) == Nil

DataReturn(err) == err

Data(r, postErr) ==
    /\ call' = [op |-> "Data", r |-> r]
    /\ before' = [from |-> from, to |-> to]
    /\ IF CreateReaderFails(r)
       THEN /\ ret' = ErrCreateReader
            /\ dispatched' = <<>>
            /\ replies' = <<>>
       ELSE LET acc == ProcessParts(PartsRead(r))
                sel == SelectBody(acc.bodyText, acc.bodyHTML)
                req == SendRequest(to, ParsedSubject(r), sel.finalBody, sel.contentType)
            IN  /\ dispatched' = PostAttempts(req, postErr)
                /\ replies' = [i \in DOMAIN PostAttempts(req, postErr) |-> PostReply(postErr)]
                /\ ret' = DataReturn(PostReply(postErr))
    /\ UNCHANGED <<boot, cur, peer, config, freshLoopVar, from, to, authed, declared>>

----------------------------------------------------------------------------
(* Backend.NewSession: the session as created *)

NewSession ==
    [from |-> "", to |-> <<>>, call |-> [op |-> "NewSession"],
     before |-> [from |-> "", to |-> <<>>], ret |-> Nil, dispatched |-> <<>>,
     replies |-> <<>>, authed |-> FALSE, declared |-> <<>>]

Serving == [pc |-> "serving"]

Init ==
    /\ boot = Serving
    /\ cur = 1
    /\ peer = NewSession
    /\ config \in Configs
    /\ freshLoopVar \in BOOLEAN
    /\ from = ""
    /\ to = <<>>
    /\ call = [op |-> "NewSession"]
    /\ before = [from |-> "", to |-> <<>>]
    /\ ret = Nil
    /\ dispatched = <<>>
    /\ replies = <<>>
    /\ authed = FALSE
    /\ declared = <<>>

(* Payloads submitted in the session-level specification *)

ExamplePayload ==
    [framed |-> TRUE, subject |-> [present |-> TRUE, raw |-> "Hi"],
     parts |-> <<[header |-> "InlineHeader", ctype |-> "text/plain", body |-> "hello"]>>,
     partErr |-> FALSE]

AttachmentOnlyPayload ==
    [framed |-> TRUE, subject |-> [present |-> TRUE, raw |-> "=?x-unknown?Q?Hi?="],
     parts |-> <<[header |-> "AttachmentHeader", ctype |-> "application/pdf",
                  body |-> "%PDF-1.4"]>>,
     partErr |-> TRUE]

HtmlAndTextPayload ==
    [framed |-> TRUE, subject |-> NoSubject,
     parts |-> <<[header |-> "InlineHeader", ctype |-> "text/plain", body |-> "hello"],
                 [header |-> "InlineHeader", ctype |-> "text/html", body |-> "<p>hi</p>"]>>,
     partErr |-> FALSE]

SessionPayloads == {Unframed, ExamplePayload, AttachmentOnlyPayload, HtmlAndTextPayload}

(* Any sequence of handler calls on one session *)

Next ==
    \/ \E u \in Usernames, p \in Passwords : AuthPlain(u, p)
    \/ \E s \in Senders : Mail(s)
    \/ Len(to) < MaxRcpt /\ \E a \in Addrs : Rcpt(a)
    \/ \E r \in SessionPayloads, e \in BOOLEAN : Data(r, e)
    \/ Reset
    \/ Logout

Spec == Init /\ [][Next]_vars

(* One body submission, over every payload, after any recipient declarations *)

BodyPending == call.op # "Data"

NextData ==
    \/ BodyPending /\ Len(to) < MaxRcpt /\ \E a \in Addrs : Rcpt(a)
    \/ BodyPending /\ \E r \in Payloads, e \in BOOLEAN : Data(r, e)

SpecData == Init /\ [][NextData]_vars

(* Two sessions of one Backend, each on its own connection: the handler     *)
(* calls of the two interleave in any order. Switch is the other            *)
(* connection's turn: its session becomes the one the handlers act on.      *)

Switch ==
    /\ cur' = 3 - cur
    /\ peer' = [from |-> from, to |-> to, call |-> call, before |-> before, ret |-> ret,
                dispatched |-> dispatched, replies |-> replies, authed |-> authed,
                declared |-> declared]
    /\ from' = peer.from
    /\ to' = peer.to
    /\ call' = peer.call
    /\ before' = peer.before
    /\ ret' = peer.ret
    /\ dispatched' = peer.dispatched
    /\ replies' = peer.replies
    /\ authed' = peer.authed
    /\ declared' = peer.declared
    /\ UNCHANGED <<boot, config, freshLoopVar>>

TwoSessionPayloads == {Unframed, ExamplePayload}

NextTwo ==
    \/ \E u \in Usernames, p \in Passwords : AuthPlain(u, p)
    \/ \E s \in Senders : Mail(s)
    \/ Len(to) < MaxRcptTwo /\ \E a \in Addrs : Rcpt(a)
    \/ \E r \in TwoSessionPayloads, e \in BOOLEAN : Data(r, e)
    \/ Reset
    \/ Switch

SpecTwo == Init /\ [][NextTwo]_vars

----------------------------------------------------------------------------
(* loadConfig: the settings it decodes from the environment, the .env file  *)
(* and config.yaml. A source is described by the set of keys it defines;    *)
(* the value it gives a key names the source, except for the tenant id,     *)
(* which is the deployment's own and whose length matters to main.          *)

RequiredKeys ==
    <<"ms_graph_tenant_id", "ms_graph_client_id", "ms_graph_email_from",
      "ms_graph_cert_path">>

Required == {RequiredKeys[i] : i \in DOMAIN RequiredKeys}

Keys == Required \cup {"smtp_port", "health_port"}

KeySets == {{}, {"smtp_port"}, Required, Keys}

EnvValue == "from-env"
YamlValue == "from-yaml"
DotenvValue == "from-dotenv"

YamlFiles == {[exists |-> FALSE, keys |-> {}]} \cup [exists : {TRUE}, keys : KeySets]

DotenvFiles ==
    {[state |-> "absent", keys |-> {}], [state |-> "malformed", keys |-> {}]}
        \cup [state : {"ok"}, keys : KeySets]

(* Tenant ids of 7, 8 and 36 characters *)
TenantIDs == {"contoso", "contoso1", "72f988bf-86f1-41af-91ab-2d7cd011db47"}

BootStarts ==
    [pc : {"start"}, env : KeySets, yaml : YamlFiles, dotenv : DotenvFiles,
     tenant : TenantIDs, settings : {<<>>}, err : {Nil}]

(* v.SetDefault *)
Default(k) ==
    CASE k = "smtp_port" -> "8025"
      [] k = "health_port" -> "8080"
      [] OTHER -> ""

(* The one configuration file viper ends up holding: .env when it was read; *)
(* config.yaml only when reading .env failed with an error other than       *)
(* "does not exist"; none when there is no .env.                            *)
ConfigFileRead(b) ==
    IF b.dotenv.state = "ok"
    THEN [keys |-> b.dotenv.keys, value |-> DotenvValue]
    ELSE IF b.dotenv.state = "malformed" /\ b.yaml.exists
         THEN [keys |-> b.yaml.keys, value |-> YamlValue]
         ELSE [keys |-> {}, value |-> ""]

(* What a source that defines key k gives for it *)
SourceValue(b, k, v) == IF k = "ms_graph_tenant_id" THEN b.tenant ELSE v

(* v.Unmarshal with AutomaticEnv: environment, then the file read, then the *)
(* default.                                                                 *)
Decode(b) ==
    [k \in Keys |->
        IF k \in b.env
        THEN SourceValue(b, k, EnvValue)
        ELSE IF k \in ConfigFileRead(b).keys
             THEN SourceValue(b, k, ConfigFileRead(b).value)
             ELSE Default(k)]

(* Manual validation for required fields, in the order of the code *)
Validate(c) ==
    IF c["ms_graph_tenant_id"] = "" THEN "MS_GRAPH_TENANT_ID is required"
    ELSE IF c["ms_graph_client_id"] = "" THEN "MS_GRAPH_CLIENT_ID is required"
    ELSE IF c["ms_graph_email_from"] = "" THEN "MS_GRAPH_EMAIL_FROM is required"
    ELSE IF c["ms_graph_cert_path"] = "" THEN "MS_GRAPH_CERT_PATH is required"
    ELSE Nil

LoadConfig ==
    /\ boot.pc = "start"
    /\ boot' = [boot EXCEPT
                   !.pc = "loaded",
                   !.err = Validate(Decode(boot)),
                   !.settings = IF Validate(Decode(boot)) = Nil THEN Decode(boot) ELSE <<>>]
    /\ UNCHANGED <<config, freshLoopVar, from, to, call, before, ret, dispatched, replies,
                   authed, declared, cur, peer>>

(* Startup: no connection has been accepted yet *)
InitConfig ==
    /\ boot \in BootStarts
    /\ cur = 1
    /\ peer = NewSession
    /\ config \in Configs
    /\ freshLoopVar \in BOOLEAN
    /\ from = ""
    /\ to = <<>>
    /\ call = [op |-> "NewSession"]
    /\ before = [from |-> "", to |-> <<>>]
    /\ ret = Nil
    /\ dispatched = <<>>
    /\ replies = <<>>
    /\ authed = FALSE
    /\ declared = <<>>

(* main: a configuration error is logged and the process exits with 1 *)
ExitOnConfigurationError ==
    /\ boot.pc = "loaded"
    /\ boot.err # Nil
    /\ boot' = [boot EXCEPT !.pc = "exit"]
    /\ UNCHANGED <<config, freshLoopVar, from, to, call, before, ret, dispatched, replies,
                   authed, declared, cur, peer>>

(* The length of the tenant id prefix main logs: config.TenantID[:8] *)
TenantLogPrefix == 8

(* s[:n] panics with "slice bounds out of range" when s is shorter than n *)
SlicePanics(s, n) == Len(s) < n

(* main: "Configuration loaded" is logged with the first characters of the  *)
(* tenant id, and then initGraphClient is called.                           *)
LogConfigurationLoaded ==
    /\ boot.pc = "loaded"
    /\ boot.err = Nil
    /\ boot' = [boot EXCEPT
                   !.pc = IF SlicePanics(boot.settings["ms_graph_tenant_id"], TenantLogPrefix)
                          THEN "panic"
                          ELSE "initGraphClient"]
    /\ UNCHANGED <<config, freshLoopVar, from, to, call, before, ret, dispatched, replies,
                   authed, declared, cur, peer>>

NextConfig ==
    \/ LoadConfig
    \/ ExitOnConfigurationError
    \/ LogConfigurationLoaded

SpecConfig == InitConfig /\ [][NextConfig]_vars

----------------------------------------------------------------------------
(* Vocabulary of the properties *)

(* The priority README.md documents: environment variable, config.yaml,     *)
(* .env file, default value.                                                *)
Documented(b, k) ==
    IF k \in b.env THEN SourceValue(b, k, EnvValue)
    ELSE IF b.yaml.exists /\ k \in b.yaml.keys THEN SourceValue(b, k, YamlValue)
    ELSE IF b.dotenv.state = "ok" /\ k \in b.dotenv.keys THEN SourceValue(b, k, DotenvValue)
    ELSE Default(k)

IsData == call.op = "Data"

FramedData == IsData /\ call.r.framed

HtmlIdx(parts) ==
    {i \in DOMAIN parts : parts[i].header = "InlineHeader" /\ parts[i].ctype = "text/html"}

TextIdx(parts) ==
    {i \in DOMAIN parts : parts[i].header = "InlineHeader" /\ parts[i].ctype # "text/html"}

Last(S) == CHOOSE i \in S : \A j \in S : j <= i

OneDispatch == Len(dispatched) = 1

LastBody(parts, idx) == IF idx = {} THEN "" ELSE parts[Last(idx)].body

ExpectedBody(parts) ==
    IF LastBody(parts, HtmlIdx(parts)) # ""
    THEN [contentType |-> "HTML_BODYTYPE", content |-> LastBody(parts, HtmlIdx(parts))]
    ELSE [contentType |-> "TEXT_BODYTYPE", content |-> LastBody(parts, TextIdx(parts))]

----------------------------------------------------------------------------
(* C1: when RequireAuth is true and no AuthPlain on the session has         *)
(* succeeded, no Data call posts a send request.                            *)
AuthBeforeDispatch ==
    (config.RequireAuth /\ ~authed) => dispatched = <<>>

(* C2: after every Data call, whatever it returned, the sender is empty and *)
(* the recipient sequence is empty.                                         *)
DataReturnsToIdle ==
    IsData => (from = "" /\ to = <<>>)

(* C3: immediately after Mail returns, the recipient sequence is empty and  *)
(* the sender is the newly declared address.                                *)
MailDiscardsRecipients ==
    call.op = "Mail" => (to = <<>> /\ from = call.from)

(* C4: the recipient sequence is exactly the sequence of addresses given to *)
(* Rcpt since the envelope was last empty (same length, same order,         *)
(* duplicates kept), and each Rcpt call succeeds.                           *)
RcptSequenceExact ==
    /\ to = declared
    /\ call.op = "Rcpt" => (ret = Nil /\ to = Append(before.to, call.to))

RcptDuplicateKept ==
    /\ call.op = "Rcpt"
    /\ to = <<"b@x.com", "b@x.com">>

HtmlAlwaysSelected ==
    (FramedData /\ HtmlIdx(call.r.parts) # {} /\ TextIdx(call.r.parts) # {}) =>
        /\ OneDispatch
        /\ dispatched[1].body.contentType = "HTML_BODYTYPE"
        /\ \E i \in HtmlIdx(call.r.parts) :
               dispatched[1].body.content = call.r.parts[i].body

(* C6 amended: for every payload with an HTML inline part and a plain-text  *)
(* inline part, in any order, Data dispatches with body kind HTML and the   *)
(* content of the last HTML part read when that content is non-empty; when  *)
(* it is empty, Data dispatches with body kind text and the content of the  *)
(* last plain-text part read.                                               *)
HtmlSelectedWhenNonEmpty ==
    (FramedData /\ HtmlIdx(call.r.parts) # {} /\ TextIdx(call.r.parts) # {}) =>
        LET h == call.r.parts[Last(HtmlIdx(call.r.parts))].body
            t == call.r.parts[Last(TextIdx(call.r.parts))].body
        IN  /\ OneDispatch
            /\ dispatched[1].body =
                   IF h # ""
                   THEN [contentType |-> "HTML_BODYTYPE", content |-> h]
                   ELSE [contentType |-> "TEXT_BODYTYPE", content |-> t]

HtmlAndTextDispatched ==
    /\ FramedData
    /\ Len(call.r.parts) = 2
    /\ call.r.parts[1] = [header |-> "InlineHeader", ctype |-> "text/plain", body |-> "hello"]
    /\ call.r.parts[2] = [header |-> "InlineHeader", ctype |-> "text/html", body |-> "<p>hi</p>"]
    /\ OneDispatch
    /\ dispatched[1].body = [contentType |-> "HTML_BODYTYPE", content |-> "<p>hi</p>"]

(* C7: for every payload whose only inline part is a single non-HTML part,  *)
(* Data dispatches with body kind text and a body equal to that part's      *)
(* content exactly.                                                         *)
PlainOnlySelectsText ==
    (FramedData /\ HtmlIdx(call.r.parts) = {}
                /\ Cardinality(TextIdx(call.r.parts)) = 1) =>
        /\ OneDispatch
        /\ dispatched[1].body =
               [contentType |-> "TEXT_BODYTYPE",
                content |-> call.r.parts[Last(TextIdx(call.r.parts))].body]

PlainOnlyDispatched ==
    /\ FramedData
    /\ call.r.parts =
           <<[header |-> "AttachmentHeader", ctype |-> "text/html", body |-> "%PDF-1.4"],
             [header |-> "InlineHeader", ctype |-> "text/plain", body |-> "hello"]>>
    /\ OneDispatch
    /\ dispatched[1].body.content = "hello"

(* C8: for every validly framed payload with no inline part (attachments    *)
(* only, any number), Data issues exactly one dispatch, with an empty body  *)
(* of kind text; no field of the request holds attachment content, and the  *)
(* call fails only if the post itself fails.                                *)
AttachmentOnlyDispatchesEmpty ==
    (FramedData /\ HtmlIdx(call.r.parts) = {} /\ TextIdx(call.r.parts) = {}) =>
        /\ OneDispatch
        /\ dispatched[1].body = [contentType |-> "TEXT_BODYTYPE", content |-> ""]
        /\ DOMAIN dispatched[1] =
               {"userId", "subject", "body", "toRecipients", "saveToSentItems"}
        /\ dispatched[1].subject \notin AttachmentBodies
        /\ ret \in {Nil, ErrPost}

TwoAttachmentsDispatched ==
    /\ FramedData
    /\ Len(call.r.parts) = 2
    /\ \A i \in DOMAIN call.r.parts : call.r.parts[i].header = "AttachmentHeader"
    /\ OneDispatch
    /\ ret = Nil

(* C9: Reset, in any session state, leaves the sender empty and the         *)
(* recipient sequence empty; a second Reset changes neither; a Mail right   *)
(* after a Reset starts with an empty recipient sequence.                   *)
ResetClearsEnvelope ==
    /\ [](call.op = "Reset" => (from = "" /\ to = <<>>))
    /\ [][(call.op = "Reset" /\ call'.op = "Reset") => (from' = from /\ to' = to)]_vars
    /\ [][(call.op = "Reset" /\ call'.op = "Mail") => to' = <<>>]_vars

ResetAfterTwoRcpts ==
    /\ call.op = "Reset"
    /\ before.from = "a@x.com"
    /\ before.to = <<"b@x.com", "c@x.com">>
    /\ to = <<>>

(* C10: when mail.CreateReader fails, Data returns that error and posts no  *)
(* send request.                                                            *)
UnframedNeverDispatched ==
    (IsData /\ ~call.r.framed) => (ret = ErrCreateReader /\ dispatched = <<>>)

UnframedRejected ==
    /\ IsData
    /\ ~call.r.framed
    /\ to # <<>>
    /\ ret = ErrCreateReader

(* C11: every Data call whose payload is validly framed posts exactly one   *)
(* send request, never none and never more, whether the post fails or not;  *)
(* a Data call whose payload is not framed posts none.                      *)
ExactlyOneAttempt ==
    IsData =>
        /\ Len(dispatched) = (IF call.r.framed THEN 1 ELSE 0)
        /\ Len(replies) = Len(dispatched)

FailedAttemptNotRetried ==
    /\ FramedData
    /\ replies = <<ErrPost>>
    /\ Len(dispatched) = 1

(* C12: Data returns nil exactly when it posted a request and the post      *)
(* returned nil; when the post returned an error, Data returns that error.  *)
DataSuccessIffPosted ==
    IsData =>
        /\ ret = Nil <=> (dispatched # <<>> /\ \A i \in DOMAIN replies : replies[i] = Nil)
        /\ \A i \in DOMAIN replies : replies[i] # Nil => ret = replies[i]

PostErrorReturned ==
    /\ FramedData
    /\ to # <<>>
    /\ replies = <<ErrPost>>
    /\ ret = ErrPost

(* C13: whenever a Data call posts a request, the envelope's recipient      *)
(* sequence is non-empty, and so is the request's.                          *)
DispatchHasRecipients ==
    (IsData /\ dispatched # <<>>) =>
        (before.to # <<>> /\ dispatched[1].toRecipients # <<>>)

(* C14: the subject of the request is the placeholder when the headers have *)
(* no Subject or the Subject cannot be decoded, never the empty string      *)
(* then; otherwise it is the decoded Subject.                               *)
SubjectPlaceholderWhenAbsent ==
    FramedData =>
        \A i \in DOMAIN dispatched :
            IF ~call.r.subject.present \/ call.r.subject.raw \in UndecodableSubjects
            THEN dispatched[i].subject = "(No Subject)"
            ELSE dispatched[i].subject = call.r.subject.raw

(* C15: AuthPlain returns nil for every pair when RequireAuth is false;     *)
(* when it is true, it returns nil exactly when username and password both  *)
(* equal the configured pair, and the authentication error otherwise.       *)
AuthPlainExactMatch ==
    call.op = "AuthPlain" =>
        IF ~config.RequireAuth
           \/ (call.username = config.AuthUsername /\ call.password = config.AuthPassword)
        THEN ret = Nil
        ELSE ret = ErrInvalidCredentials

RightUserWrongPassword ==
    /\ call.op = "AuthPlain"
    /\ config.RequireAuth
    /\ call.username = config.AuthUsername
    /\ call.password # config.AuthPassword
    /\ ret = ErrInvalidCredentials

(* C18: when NextPart stops with an error, Data still posts its one         *)
(* request, with the body selected from the inline parts read before the    *)
(* error, and returns what the post returned, not the part error.           *)
PartFailureNotFatal ==
    (FramedData /\ call.r.partErr) =>
        /\ OneDispatch
        /\ dispatched[1].body = ExpectedBody(call.r.parts)
        /\ ret = replies[1]

PartFailureAfterText ==
    /\ FramedData
    /\ call.r.partErr
    /\ call.r.parts = <<[header |-> "InlineHeader", ctype |-> "text/plain", body |-> "hello"]>>
    /\ OneDispatch
    /\ dispatched[1].body.content = "hello"
    /\ ret = Nil

(* C19: with several inline parts of one kind, the body stored for that     *)
(* kind is the content of the last of them read, for every ordering; the    *)
(* body sent is the content of one part (or empty), never a concatenation.  *)
LastPartOfKindWins ==
    FramedData =>
        /\ HtmlIdx(call.r.parts) # {} =>
               ProcessParts(call.r.parts).bodyHTML = LastBody(call.r.parts, HtmlIdx(call.r.parts))
        /\ TextIdx(call.r.parts) # {} =>
               ProcessParts(call.r.parts).bodyText = LastBody(call.r.parts, TextIdx(call.r.parts))
        /\ \A i \in DOMAIN dispatched :
               dispatched[i].body.content \in
                   {""} \cup {call.r.parts[j].body : j \in DOMAIN call.r.parts}

TwoHtmlPartsLastSent ==
    /\ FramedData
    /\ call.r.parts =
           <<[header |-> "InlineHeader", ctype |-> "text/html", body |-> "hello"],
             [header |-> "InlineHeader", ctype |-> "text/html", body |-> "<p>hi</p>"]>>
    /\ OneDispatch
    /\ dispatched[1].body = [contentType |-> "HTML_BODYTYPE", content |-> "<p>hi</p>"]

(* C16: every send request is issued for config.EmailFrom, and the sender   *)
(* declared with Mail has no influence on it: two sessions whose Data calls *)
(* had the same payload and the same recipients posted identical requests,  *)
(* whatever their Mail arguments were.                                      *)
SenderIdentityFixed ==
    /\ \A i \in DOMAIN dispatched : dispatched[i].userId = config.EmailFrom
    /\ \A i \in DOMAIN peer.dispatched : peer.dispatched[i].userId = config.EmailFrom
    /\ (IsData /\ peer.call.op = "Data" /\ peer.call.r = call.r /\ peer.before.to = before.to)
           => dispatched = peer.dispatched

SameRequestDifferentSenders ==
    /\ IsData
    /\ peer.call.op = "Data"
    /\ call.r = ExamplePayload
    /\ peer.call.r = ExamplePayload
    /\ from = "a@x.com"
    /\ peer.from = "d@x.com"
    /\ to = <<"b@x.com">>
    /\ peer.to = <<"b@x.com">>
    /\ dispatched # <<>>
    /\ dispatched = peer.dispatched

(* C20: under every interleaving of the handler calls of two sessions of    *)
(* one Backend, a call on one session leaves the other session's fields and *)
(* results as they were, each session's recipients are those declared on    *)
(* it, each request goes to recipients of its own session, and no call      *)
(* changes the Backend's configuration.                                     *)
SessionsIndependent ==
    /\ [](to = declared /\ peer.to = peer.declared)
    /\ [](\A i \in DOMAIN dispatched :
              \A j \in DOMAIN dispatched[i].toRecipients :
                  \E k \in DOMAIN before.to : dispatched[i].toRecipients[j] = before.to[k])
    /\ [][cur' = cur => peer' = peer]_vars
    /\ [][config' = config]_vars

TwoSessionsWithOwnEnvelopes ==
    /\ cur = 2
    /\ from = "d@x.com"
    /\ to = <<"c@x.com">>
    /\ peer.from = "a@x.com"
    /\ peer.to = <<"b@x.com">>
    /\ peer.dispatched # <<>>
    /\ IsData
    /\ dispatched # <<>>

(* C17: loadConfig resolves each setting by the documented priority:        *)
(* environment variable over config.yaml over .env over the built-in        *)
(* default; config.yaml is consulted whenever it exists, with or without a  *)
(* .env file.                                                               *)
DocumentedPriority ==
    (boot.pc = "loaded" /\ boot.err = Nil) =>
        \A k \in Keys : boot.settings[k] = Documented(boot, k)

(* C21: for every configuration loadConfig accepts (the four required       *)
(* settings non-empty), startup in main reaches Graph client initialization *)
(* without a runtime failure; a non-empty tenant id shorter than 8          *)
(* characters does not crash the process when the configuration is logged.  *)
AcceptedConfigReachesGraphInit ==
    (boot.pc \in {"exit", "panic", "initGraphClient"} /\ boot.err = Nil) =>
        boot.pc = "initGraphClient"

====
